---- MODULE Spec2Model ----
(***************************************************************************)
(* Path resolution of es-toolkit's compat layer: has (compat/object/has.ts)*)
(* and invoke (its file imports ./toPath.ts and ../object/get.ts).  Both   *)
(* are pure functions of their arguments; the state machine draws the      *)
(* arguments from bounded sets and applies each function once.  isIndex,   *)
(* isDeepKey, toPath, isArguments, toKey, last and get are collaborators   *)
(* whose code is elsewhere; they follow their documented contracts.        *)
(*                                                                         *)
(* JavaScript strings are sequences of one-character strings, so that the  *)
(* tokenizer really scans characters.  A property key (a path element) is  *)
(* a record [k, s, n]: a string (s), a number (n) or a symbol (described   *)
(* by s).  A value is a record [t, n, f, own, proto]: its type tag, its    *)
(* number, its function body's name, its own properties and the properties *)
(* it inherits (both maps from property names to values).                  *)
(***************************************************************************)
EXTENDS Integers, Sequences, FiniteSets, TLC

\* ------------------------------------------------------------------ bounds
\* The largest declared length of an array or arguments object.
MaxLen == 3
\* The largest number used as a key.
MaxIdx == 4
\* The longest key sequence given as a path.
MaxPathLen == 2

\* ----------------------------------------------------------------- strings
sA == <<"a">>
sB == <<"b">>
sAB == <<"a", ".", "b">>
sA0 == <<"a", "[", "0", "]">>
sAQ == <<"a", "[", "'", "b", ".", "b", "'", "]">>
sOpen == <<"a", "[", "0">>
sDotOpen == <<"a", ".", "b", "[">>
s0 == <<"0">>
s1 == <<"1">>
sLength == <<"l", "e", "n", "g", "t", "h">>
sUndefined == <<"u", "n", "d", "e", "f", "i", "n", "e", "d">>
sSym == <<"s">>

DigitChars == <<"0", "1", "2", "3", "4", "5", "6", "7", "8", "9">>

IsDigit(c) == \E d \in 1..10 : DigitChars[d] = c

DigitVal(c) == (CHOOSE d \in 1..10 : DigitChars[d] = c) - 1

RECURSIVE DigitsOf(_)
DigitsOf(n) ==
    IF n < 10 THEN <<DigitChars[n + 1]>>
    ELSE DigitsOf(n \div 10) \o <<DigitChars[(n % 10) + 1]>>

\* Number::toString for the integers of the model.
NumToStr(n) == IF n < 0 THEN <<"-">> \o DigitsOf(0 - n) ELSE DigitsOf(n)

RECURSIVE StrToNumFrom(_, _, _)
StrToNumFrom(s, i, acc) ==
    IF i > Len(s) THEN acc
    ELSE StrToNumFrom(s, i + 1, acc * 10 + DigitVal(s[i]))

\* ToNumber of a string of decimal digits.
StrToNum(s) == StrToNumFrom(s, 1, 0)

\* -------------------------------------------------------------------- keys
StrKey(s) == [k |-> "string", s |-> s, n |-> 0]
NumKey(n) == [k |-> "number", s |-> <<>>, n |-> n]
SymKey(d) == [k |-> "symbol", s |-> d, n |-> 0]

\* The property name a key denotes (ToPropertyKey): a number is its decimal
\* string, a symbol is itself, which no string equals.
ToPropertyKey(key) ==
    CASE key.k = "string" -> key.s
      [] key.k = "number" -> NumToStr(key.n)
      [] key.k = "symbol" -> <<"@@symbol">> \o key.s

\* String(key): a symbol becomes its description text "Symbol(s)".
String(key) ==
    CASE key.k = "string" -> key.s
      [] key.k = "number" -> NumToStr(key.n)
      [] key.k = "symbol" ->
            <<"S", "y", "m", "b", "o", "l", "(">> \o key.s \o <<")">>

\* ------------------------------------------------------------------ values
NoProps == [x \in {} |-> 0]

Val(t, n, f, own, proto) ==
    [t |-> t, n |-> n, f |-> f, own |-> own, proto |-> proto]

Undef == Val("undefined", 0, "", NoProps, NoProps)
Null == Val("null", 0, "", NoProps, NoProps)
Num(n) == Val("number", n, "", NoProps, NoProps)
NaN == Val("NaN", 0, "", NoProps, NoProps)
Bool(b) == Val("boolean", IF b THEN 1 ELSE 0, "", NoProps, NoProps)
Fn(f) == Val("function", 0, f, NoProps, NoProps)
FnWith(f, own) == Val("function", 0, f, own, NoProps)
Obj(own) == Val("object", 0, "", own, NoProps)
ObjProto(own, proto) == Val("object", 0, "", own, proto)

\* An array (or, with t = "arguments", an arguments object) of declared
\* length n whose indices in S hold e; the other indices below n are holes.
ArrayLike(t, n, S, e) ==
    Val(t, 0, "",
        [p \in {NumToStr(i) : i \in S} \cup {sLength} |->
            IF p = sLength THEN Num(n) ELSE e],
        NoProps)

\* The dense array holding the values of the sequence xs.
ArrOf(xs) ==
    Val("array", 0, "",
        [p \in {NumToStr(i - 1) : i \in 1..Len(xs)} \cup {sLength} |->
            IF p = sLength THEN Num(Len(xs))
            ELSE xs[(CHOOSE i \in 1..Len(xs) : NumToStr(i - 1) = p)]],
        NoProps)

\* value == null
IsNullish(v) == v.t \in {"undefined", "null"}

\* typeof value
TypeOf(v) ==
    CASE v.t \in {"null", "object", "array", "arguments"} -> "object"
      [] v.t = "NaN" -> "number"
      [] OTHER -> v.t

\* Array.isArray(value)
IsArray(v) == v.t = "array"

\* Object.hasOwn(value, key), for a value that is not null or undefined.
hasOwn(v, key) == ToPropertyKey(key) \in DOMAIN v.own

\* value[key], for a value that is not null or undefined: the own property,
\* else the inherited one, else undefined.
GetMember(v, key) ==
    LET p == ToPropertyKey(key) IN
    IF p \in DOMAIN v.own THEN v.own[p]
    ELSE IF p \in DOMAIN v.proto THEN v.proto[p]
    ELSE Undef

\* object?.[key]
OptionalMember(v, key) == IF IsNullish(v) THEN Undef ELSE GetMember(v, key)

\* ---------------------------------------------------------------- outcomes
\* How a call ends: it returns val, or it throws the error named err.
Return(v) == [kind |-> "return", val |-> v, err |-> ""]
Throw(e) == [kind |-> "throw", val |-> Undef, err |-> e]

\* A tokenizer result: the key sequence, or ok = FALSE for a ParseError.
Tokens(toks) == [ok |-> TRUE, toks |-> toks]
ParseError == [ok |-> FALSE, toks |-> <<>>]

\* --------------------------------------------------- consumed collaborators
\* isIndex(key): a non-negative integer, or its decimal string with no sign
\* and no leading zero.  The numbers of the model stay far below the safe
\* integer limit.
isIndex(key) ==
    CASE key.k = "number" -> key.n >= 0
      [] key.k = "symbol" -> FALSE
      [] key.k = "string" ->
            /\ Len(key.s) > 0
            /\ \A i \in 1..Len(key.s) : IsDigit(key.s[i])
            /\ (Len(key.s) = 1 \/ key.s[1] # "0")

\* isDeepKey(key): a string holding dot or bracket syntax.
isDeepKey(key) ==
    /\ key.k = "string"
    /\ \E i \in 1..Len(key.s) : key.s[i] \in {".", "[", "]"}

\* The index of the "]" closing the bracket opened at s[i]; 0 when the
\* bracket is never closed.  A quoted segment closes at its quote and "]".
BracketEnd(s, i) ==
    LET quoted == i < Len(s) /\ s[i + 1] \in {"'", "\""}
        ends == IF quoted
                THEN {j \in (i + 3)..Len(s) :
                        s[j] = "]" /\ s[j - 1] = s[i + 1]}
                ELSE {j \in (i + 1)..Len(s) : s[j] = "]"}
    IN  IF ends = {} THEN 0
        ELSE CHOOSE j \in ends : \A m \in ends : j <= m

\* The token of a bracket segment's content: the text between matching
\* quotes, a numeric index, or a plain string; nothing when it is empty.
BracketToken(c) ==
    IF Len(c) >= 2 /\ c[1] \in {"'", "\""} /\ c[Len(c)] = c[1]
    THEN <<StrKey(SubSeq(c, 2, Len(c) - 1))>>
    ELSE IF c = <<>> THEN <<>>
    ELSE IF isIndex(StrKey(c)) THEN <<NumKey(StrToNum(c))>>
    ELSE <<StrKey(c)>>

RECURSIVE Scan(_, _, _, _)
Scan(s, i, buf, toks) ==
    LET flush == IF buf = <<>> THEN toks ELSE Append(toks, StrKey(buf)) IN
    IF i > Len(s) THEN Tokens(flush)
    ELSE IF s[i] = "\\" /\ i < Len(s) /\ s[i + 1] \in {".", "[", "]"}
    THEN Scan(s, i + 2, Append(buf, s[i + 1]), toks)
    ELSE IF s[i] = "." THEN Scan(s, i + 1, <<>>, flush)
    ELSE IF s[i] = "["
    THEN LET close == BracketEnd(s, i) IN
         IF close = 0 THEN ParseError
         ELSE Scan(s, close + 1, <<>>,
                   flush \o BracketToken(SubSeq(s, i + 1, close - 1)))
    ELSE Scan(s, i + 1, Append(buf, s[i]), toks)

\* toPath(path): the string's key sequence, scanned left to right; an
\* unterminated "[" is a ParseError.
toPath(s) == Scan(s, 1, <<>>, <<>>)

\* isArguments(value)
isArguments(v) == v.t = "arguments"

\* toKey(value): a number's property-key string.
toKey(n) == NumToStr(n)

\* last(sequence): the final element; none |-> TRUE stands for undefined.
last(seq) ==
    IF Len(seq) = 0 THEN [none |-> TRUE, key |-> StrKey(sUndefined)]
    ELSE [none |-> FALSE, key |-> seq[Len(seq)]]

RECURSIVE getWalk(_, _, _, _)
getWalk(current, path, i, defaultValue) ==
    IF i > Len(path)
    THEN IF current.t = "undefined" THEN defaultValue ELSE current
    ELSE IF IsNullish(current) THEN defaultValue
    ELSE getWalk(GetMember(current, path[i]), path, i + 1, defaultValue)

\* get(object, path, defaultValue): the value the key sequence leads to;
\* the default when the sequence is empty, when a step is missing or
\* null/undefined, or when the value found is undefined.
get(object, path, defaultValue) ==
    IF Len(path) = 0 THEN defaultValue
    ELSE getWalk(object, path, 1, defaultValue)

\* --------------------------------------------------------------------- has
\* A path argument: one key (form = "key") or a key sequence (form = "seq").
KeyPath(key) == [form |-> "key", key |-> key, seq |-> <<>>]
SeqPath(seq) == [form |-> "seq", key |-> StrKey(<<>>), seq |-> seq]

\* A has that never tokenizes a string path.
hasResolve_noDeep(object, path) ==
    IF path.form = "seq" THEN Tokens(path.seq) ELSE Tokens(<<path.key>>)

\* The normalisation of has: a sequence as it is; a deep-key string whose
\* direct lookup is null or undefined tokenized; anything else as one key.
hasResolve(object, path) ==
    IF path.form = "seq" THEN Tokens(path.seq)
    ELSE IF /\ path.key.k = "string"
            /\ isDeepKey(path.key)
            /\ IsNullish(OptionalMember(object, path.key))
    THEN toPath(path.key.s)
    ELSE Tokens(<<path.key>>)

\* key < current.length, the key converted to a number.
BelowLength(current, key) ==
    LET len == GetMember(current, StrKey(sLength))
        k == IF key.k = "number" THEN key.n ELSE StrToNum(key.s)
    IN  len.t = "number" /\ k < len.n

\* An exception that also admits the index equal to the length.
isSparseIndex_inclusive(current, key) ==
    /\ IsArray(current) \/ isArguments(current)
    /\ isIndex(key)
    /\ LET len == GetMember(current, StrKey(sLength))
           k == IF key.k = "number" THEN key.n ELSE StrToNum(key.s)
       IN  len.t = "number" /\ k <= len.n

\* The sparse-index exception: an index below the length of an array or an
\* arguments object.
isSparseIndex(current, key) ==
    /\ IsArray(current) \/ isArguments(current)
    /\ isIndex(key)
    /\ BelowLength(current, key)

\* A loop that returns true as soon as the exception applies.
RECURSIVE hasWalk_stopAtHole(_, _, _)
hasWalk_stopAtHole(current, resolvedPath, i) ==
    IF i > Len(resolvedPath) THEN TRUE
    ELSE LET key == resolvedPath[i] IN
         IF IsNullish(current) \/ ~hasOwn(current, key)
         THEN isSparseIndex(current, key)
         ELSE hasWalk_stopAtHole(GetMember(current, key), resolvedPath, i + 1)

\* A loop that tests membership with "in", which sees inherited properties.
RECURSIVE hasWalk_inherited(_, _, _)
hasWalk_inherited(current, resolvedPath, i) ==
    IF i > Len(resolvedPath) THEN TRUE
    ELSE LET key == resolvedPath[i] IN
         IF /\ \/ IsNullish(current)
               \/ ToPropertyKey(key) \notin
                      (DOMAIN current.own \cup DOMAIN current.proto)
            /\ ~isSparseIndex(current, key)
         THEN FALSE
         ELSE hasWalk_inherited(GetMember(current, key), resolvedPath, i + 1)

\* The loop of has over the resolved path, from its i-th key.
RECURSIVE hasWalk(_, _, _)
hasWalk(current, resolvedPath, i) ==
    IF i > Len(resolvedPath) THEN TRUE
    ELSE LET key == resolvedPath[i] IN
         IF /\ IsNullish(current) \/ ~hasOwn(current, key)
            /\ ~isSparseIndex(current, key)
         THEN FALSE
         ELSE hasWalk(GetMember(current, key), resolvedPath, i + 1)

\* has(object, path)
has(object, path) ==
    LET r == hasResolve(object, path) IN
    IF ~r.ok THEN Throw("ParseError")
    ELSE IF Len(r.toks) = 0 THEN Return(Bool(FALSE))
    ELSE Return(Bool(hasWalk(object, r.toks, 1)))

\* ------------------------------------------------------------------ invoke
\* The elements an array holds at its indices below its length, in order;
\* holes are left out, as Array.prototype.flat leaves them out.
RECURSIVE ElementsFrom(_, _)
ElementsFrom(arr, i) ==
    IF i >= GetMember(arr, StrKey(sLength)).n THEN <<>>
    ELSE (IF hasOwn(arr, NumKey(i)) THEN <<GetMember(arr, NumKey(i))>>
          ELSE <<>>) \o ElementsFrom(arr, i + 1)

\* args.flat(1): each array among the arguments replaced by its elements.
RECURSIVE flat(_)
flat(xs) ==
    IF xs = <<>> THEN <<>>
    ELSE (IF IsArray(Head(xs)) THEN ElementsFrom(Head(xs), 0)
          ELSE <<Head(xs)>>) \o flat(Tail(xs))

\* What calling the function fn does with receiver thisArg and arguments
\* xs: "self" returns its receiver, "add" is (x, y) => x + y on numbers,
\* "boom" throws.
CallFunction(fn, thisArg, xs) ==
    CASE fn.f = "self" -> Return(thisArg)
      [] fn.f = "add" ->
            IF Len(xs) >= 2 /\ xs[1].t = "number" /\ xs[2].t = "number"
            THEN Return(Num(xs[1].n + xs[2].n))
            ELSE Return(NaN)
      [] fn.f = "boom" -> Throw("Error: boom")

\* The result of invoke: how it ended, and the calls it made, each with the
\* function called, its receiver and its arguments.
Ended(out, calls) == [out |-> out, calls |-> calls]
CallRecord(fn, thisArg, xs) == [fn |-> fn, this |-> thisArg, args |-> xs]

sApply == <<"a", "p", "p", "l", "y">>

\* func.apply(parent, args), without the optional chain.
OptionalApply_noGuard(func, parent, xs) ==
    IF func.t = "function"
    THEN Ended(CallFunction(func, parent, xs),
               <<CallRecord(func, parent, xs)>>)
    ELSE Ended(Throw("TypeError"), <<>>)

\* func?.apply(parent, args)
OptionalApply(func, parent, xs) ==
    IF IsNullish(func) THEN Ended(Return(Undef), <<>>)
    ELSE IF func.t = "function"
    THEN Ended(CallFunction(func, parent, xs),
               <<CallRecord(func, parent, xs)>>)
    ELSE LET m == GetMember(func, StrKey(sApply)) IN
         IF m.t = "function"
         THEN Ended(CallFunction(m, func, <<parent, ArrOf(xs)>>),
                    <<CallRecord(m, func, <<parent, ArrOf(xs)>>)>>)
         ELSE Ended(Throw("TypeError"), <<>>)

\* The last key as invokeImpl looks it up: a number through toKey, anything
\* else through String.
LastKeyOf(path) ==
    LET lastKey == last(path) IN
    IF lastKey.none THEN sUndefined
    ELSE IF lastKey.key.k = "number" THEN toKey(lastKey.key.n)
    ELSE String(lastKey.key)

invokeImpl(object, path, xs) ==
    LET parent == get(object, SubSeq(path, 1, Len(path) - 1), object) IN
    IF IsNullish(parent) THEN Ended(Return(Undef), <<>>)
    ELSE LET func == get(parent, <<StrKey(LastKeyOf(path))>>, Undef) IN
         OptionalApply(func, parent, xs)

\* An invoke that tokenizes every string path.
invokeResolve_alwaysTokenize(object, path) ==
    IF path.form = "seq" THEN Tokens(path.seq)
    ELSE IF path.key.k = "string" THEN toPath(path.key.s)
    ELSE Tokens(<<path.key>>)

\* An invoke that tests the flat key as has does, by its value.
invokeResolve_byValue(object, path) ==
    IF path.form = "seq" THEN Tokens(path.seq)
    ELSE IF path.key.k = "string"
    THEN IF ~IsNullish(GetMember(object, path.key))
         THEN Tokens(<<path.key>>)
         ELSE toPath(path.key.s)
    ELSE Tokens(<<path.key>>)

\* The normalisation of invoke: a string that is an own property of an
\* object as one key, any other string tokenized, a number or a symbol as
\* one key, a sequence as it is.
invokeResolve(object, path) ==
    IF path.form = "seq" THEN Tokens(path.seq)
    ELSE IF path.key.k = "string"
    THEN IF TypeOf(object) = "object" /\ hasOwn(object, path.key)
         THEN Tokens(<<path.key>>)
         ELSE toPath(path.key.s)
    ELSE Tokens(<<path.key>>)

\* invoke(object, path, ...args)
invoke(object, path, xs) ==
    IF IsNullish(object) THEN Ended(Return(Undef), <<>>)
    ELSE LET r == invokeResolve(object, path) IN
         IF ~r.ok THEN Ended(Throw("ParseError"), <<>>)
         ELSE invokeImpl(object, r.toks, flat(xs))

\* ------------------------------------------------------------------ inputs
Num1 == Num(1)
Num2 == Num(2)
Sym == SymKey(sSym)

One(p, v) == [x \in {p} |-> v]

Leaves == {Undef, Null, Num1, Fn("add"), Fn("boom")}

\* Containers met one level below the root.
Inner ==
    {Obj(One(sB, v)) : v \in Leaves \cup {Fn("self")}}
    \cup {Obj(NoProps), Obj(One(ToPropertyKey(Sym), Fn("self")))}
    \cup {ArrayLike("array", 2, {1}, Obj(One(sB, Num1)))}

Scalars == {Undef, Null, Num1}

Mappings ==
    {Obj(One(sA, x)) : x \in Leaves \cup Inner}
    \cup {Obj(One(sAB, v)) : v \in Leaves}
    \cup {Obj(One(sOpen, v)) : v \in {Undef, Num1}}
    \cup {Obj(One(sAB, v) @@ One(sA, Obj(One(sB, w)))) :
            v \in Leaves, w \in {Num1, Fn("self")}}
    \cup {Obj(One(ToPropertyKey(Sym), v)) : v \in {Fn("self"), Fn("boom"), Num1}}
    \cup {Obj(One(s1, Fn("self"))), Obj(One(sUndefined, Fn("self")))}

Inheriting ==
    {ObjProto(NoProps, One(p, v)) : p \in {sA, sAB}, v \in {Null, Num1, Fn("self")}}
    \cup {ObjProto(One(sA, Obj(One(sB, Fn("add")))), One(sAB, v)) :
            v \in {Null, Fn("self")}}

Elements == {Undef, Fn("self"), Obj(One(sB, Num1))}

\* An array owns indices below its length only.
Arrays ==
    UNION {{ArrayLike("array", n, S, e) :
                S \in SUBSET (0..(n - 1)), e \in Elements} : n \in 0..MaxLen}

\* An arguments object may own an index at or past its length.
ArgumentsObjects ==
    UNION {{ArrayLike("arguments", n, S, Num1) : S \in SUBSET (0..n)} :
              n \in 0..MaxLen}

\* Plain objects with a length property, which are not arrays.
ArrayLikeObjects ==
    {ArrayLike("object", n, S, Num1) : n \in 1..MaxLen, S \in SUBSET {0}}

Functions ==
    {FnWith("add", own) :
        own \in {One(sAB, Fn("self")),
                 One(sA, Obj(One(sB, Fn("self")))),
                 One(sAB, Fn("self")) @@ One(sA, Obj(One(sB, Fn("boom"))))}}

Objects ==
    Scalars \cup Mappings \cup Inheriting \cup Arrays \cup ArgumentsObjects
    \cup ArrayLikeObjects \cup Functions

PathStrings == {sA, sB, sAB, sA0, sAQ, sOpen, sDotOpen, s0, s1, sLength}

SingleKeys ==
    {StrKey(s) : s \in PathStrings} \cup {NumKey(n) : n \in 0..MaxIdx}
    \cup {Sym}

SequenceKeys == {StrKey(sA), StrKey(sB), StrKey(sAB), NumKey(0), Sym}

RECURSIVE SeqsOfLen(_)
SeqsOfLen(n) ==
    IF n = 0 THEN {<<>>}
    ELSE {Append(s, k) : s \in SeqsOfLen(n - 1), k \in SequenceKeys}

Paths ==
    {KeyPath(k) : k \in SingleKeys}
    \cup {SeqPath(s) : s \in UNION {SeqsOfLen(n) : n \in 0..MaxPathLen}}

ArgLists ==
    {<<>>,
     <<ArrOf(<<Num1, Num2>>)>>,
     <<Num1, ArrOf(<<Num2, ArrOf(<<Num1>>)>>)>>}

\* ----------------------------------------------------------- state machine
VARIABLES object, path, args, hasRun, invokeRun

vars == <<object, path, args, hasRun, invokeRun>>

\* A function that has not run yet, and one that has: the key sequence it
\* resolved the path to, how it ended, and the calls it made.
Pending == [done |-> FALSE, resolved |-> ParseError, out |-> Return(Undef),
            calls |-> <<>>]
Done(resolved, out, calls) ==
    [done |-> TRUE, resolved |-> resolved, out |-> out, calls |-> calls]

Init ==
    /\ object \in Objects
    /\ path \in Paths
    /\ args = <<>>
    /\ hasRun = Pending
    /\ invokeRun = Pending

CallHas ==
    /\ ~hasRun.done
    /\ hasRun' = Done(hasResolve(object, path), has(object, path), <<>>)
    /\ UNCHANGED <<object, path, args, invokeRun>>

CallInvoke ==
    /\ ~invokeRun.done
    /\ \E xs \in ArgLists :
          LET e == invoke(object, path, xs) IN
          /\ args' = xs
          /\ invokeRun' = Done(IF IsNullish(object) THEN ParseError
                               ELSE invokeResolve(object, path),
                               e.out, e.calls)
    /\ UNCHANGED <<object, path, hasRun>>

Next == CallHas \/ CallInvoke

Spec == Init /\ [][Next]_vars

\* ------------------------------------------------------------------ claims
\* What the formulas below say about a finished run.
HasReturned(b) == hasRun.done /\ hasRun.out = Return(Bool(b))

\* The number a key stands for when it is compared with a length.
KeyNumber(key) == IF key.k = "number" THEN key.n ELSE StrToNum(key.s)

\* The value the first i keys of a key sequence lead to, read member by
\* member; undefined once a step finds nothing.
RECURSIVE ValueAt(_, _, _)
ValueAt(v, toks, i) ==
    IF i = 0 THEN v
    ELSE LET c == ValueAt(v, toks, i - 1) IN
         IF IsNullish(c) THEN Undef ELSE GetMember(c, toks[i])

\* The keys before the i-th all exist, as has sees existence.
PrefixExists(v, toks, i) ==
    i = 1 \/ has(v, SeqPath(SubSeq(toks, 1, i - 1))) = Return(Bool(TRUE))

IsSequenceLike(v) == v.t \in {"array", "arguments"}

\* The i-th key is an index inside the declared bounds of the array or
\* arguments object reached there, and not an own property of it: a hole.
HoleAt(v, toks, i) ==
    LET c == ValueAt(v, toks, i - 1) IN
    /\ PrefixExists(v, toks, i)
    /\ IsSequenceLike(c)
    /\ isIndex(toks[i])
    /\ ~hasOwn(c, toks[i])
    /\ KeyNumber(toks[i]) < c.own[sLength].n

\* The parent container and the member invoke looks at, for a resolved key
\* sequence.
ParentOf(v, toks) == get(v, SubSeq(toks, 1, Len(toks) - 1), v)
MemberOf(v, toks) == get(ParentOf(v, toks), <<StrKey(LastKeyOf(toks))>>, Undef)

Callable(v) == v.t = "function" \/ GetMember(v, StrKey(sApply)).t = "function"

InvokeReturnedUndefined ==
    invokeRun.out = Return(Undef) /\ invokeRun.calls = <<>>

\* C1 as the spec states it: invoke returns undefined and raises nothing
\* when the object is null/undefined, the parent resolves to null/undefined,
\* the member is absent, or the member is any value that is not callable.
C1_NonCallableReturnsUndefined ==
    invokeRun.done =>
        LET r == invokeRun.resolved IN
        \/ ~IsNullish(object) /\ ~r.ok
        \/ ~IsNullish(object) /\ r.ok
              /\ ~IsNullish(ParentOf(object, r.toks))
              /\ Callable(MemberOf(object, r.toks))
        \/ InvokeReturnedUndefined

\* C1, amended: invoke returns undefined without an error when the object
\* is null/undefined, the parent resolves to null/undefined, or the member
\* under the last key is absent, null or undefined; a member that is
\* neither null/undefined nor callable makes invoke raise a TypeError; and
\* an error raised without any call is that TypeError or the tokenizer's
\* ParseError for a string it rejects.
C1_MissingReturnsUndefined ==
    invokeRun.done =>
        LET r == invokeRun.resolved IN
        /\ IsNullish(object) => InvokeReturnedUndefined
        /\ ~IsNullish(object) /\ r.ok =>
              LET parent == ParentOf(object, r.toks)
                  member == MemberOf(object, r.toks)
              IN  /\ IsNullish(parent) \/ IsNullish(member) =>
                        InvokeReturnedUndefined
                  /\ ~IsNullish(parent) /\ ~IsNullish(member)
                        /\ ~Callable(member) =>
                        /\ invokeRun.out = Throw("TypeError")
                        /\ invokeRun.calls = <<>>
        /\ invokeRun.out.kind = "throw" /\ invokeRun.calls = <<>> =>
              \/ invokeRun.out.err = "TypeError"
              \/ invokeRun.out.err = "ParseError" /\ ~r.ok
                    /\ path.form = "key" /\ path.key.k = "string"

\* invoke({a: 1}, 'a') has run: the member is a number.
C1_Witness ==
    /\ invokeRun.done
    /\ object = Obj(One(sA, Num1))
    /\ path = KeyPath(StrKey(sA))
    /\ invokeRun.out = Throw("TypeError")

\* C2: has never throws and always returns a boolean, for every target and
\* every path, a string with an unterminated bracket included.
C2_HasNeverThrows ==
    hasRun.done =>
        /\ hasRun.out.kind = "return"
        /\ hasRun.out.val \in {Bool(TRUE), Bool(FALSE)}

\* C2 away from the tokenizer's error: has returns a boolean whenever its
\* normalisation yields a key sequence.
C2_HasTotalOnResolvedPaths ==
    hasRun.done /\ hasRun.resolved.ok =>
        /\ hasRun.out.kind = "return"
        /\ hasRun.out.val \in {Bool(TRUE), Bool(FALSE)}

IsWellFormedDeepKey(p) ==
    p.form = "key" /\ isDeepKey(p.key) /\ toPath(p.key.s).ok

\* C3 as the spec states it: for every object and every well-formed deep
\* key p, has(o, p) equals has(o, toPath(p)), also when o carries p itself
\* as a flat key with a defined value.
C3_HasEqualsHasOfToPath ==
    hasRun.done /\ IsWellFormedDeepKey(path) =>
        hasRun.out = has(object, SeqPath(toPath(path.key.s).toks))

\* C3, amended: for every object o and every well-formed deep key p whose
\* direct lookup o[p] is null or undefined, has(o, p) equals
\* has(o, toPath(p)).
C3_HasEqualsHasOfToPathUnlessFlat ==
    hasRun.done /\ IsWellFormedDeepKey(path)
        /\ IsNullish(OptionalMember(object, path.key)) =>
        hasRun.out = has(object, SeqPath(toPath(path.key.s).toks))

\* has({a: {b: f}}, 'a.b') has run and found the nested member.
C3_Witness ==
    /\ HasReturned(TRUE)
    /\ path = KeyPath(StrKey(sAB))
    /\ ~IsNullish(object) /\ ~hasOwn(object, StrKey(sAB))
    /\ hasRun.resolved = Tokens(<<StrKey(sA), StrKey(sB)>>)

\* C4: at the last key k of the resolved path, reached through keys that
\* exist: on an array or arguments object of length n with k an index, has
\* is true iff k is an own property or k < n; on any other container, has
\* is true iff k is an own property, whatever its length property says.
C4_SparseIndexRule ==
    hasRun.done /\ hasRun.resolved.ok /\ Len(hasRun.resolved.toks) > 0 =>
        LET toks == hasRun.resolved.toks
            k == toks[Len(toks)]
            c == ValueAt(object, toks, Len(toks) - 1)
        IN  PrefixExists(object, toks, Len(toks)) /\ ~IsNullish(c) =>
              IF IsSequenceLike(c) /\ isIndex(k)
              THEN HasReturned(TRUE) <=>
                      \/ hasOwn(c, k)
                      \/ KeyNumber(k) < c.own[sLength].n
              ELSE HasReturned(TRUE) <=> hasOwn(c, k)

\* has([, , x], 1) has run: index 1 is a hole below the length 3.
C4_Witness ==
    /\ HasReturned(TRUE)
    /\ path = KeyPath(NumKey(1))
    /\ IsArray(object)
    /\ DOMAIN object.own = {sLength, <<"2">>}
    /\ object.own[sLength] = Num(3)

\* The nested path a deep-key string denotes exists on the object.
DeeperPathExists(v, key) ==
    /\ isDeepKey(key)
    /\ toPath(key.s).ok
    /\ has(v, SeqPath(toPath(key.s).toks)) = Return(Bool(TRUE))

IsPlainMapping(v) == v.t = "object"

\* C5 as the spec states it: for a single key k, has(o, k) is true whenever
\* k is an own property of o, whatever value it holds; and it is false on a
\* plain mapping with no own property k and no deeper path denoted by k,
\* inherited properties included.  Stated for the keys has could normalise,
\* which leaves the tokenizer's error of C2 aside.
C5_OwnPropertySemantics ==
    hasRun.done /\ hasRun.resolved.ok /\ path.form = "key"
        /\ ~IsNullish(object) =>
        /\ hasOwn(object, path.key) => HasReturned(TRUE)
        /\ IsPlainMapping(object) /\ ~hasOwn(object, path.key)
              /\ ~DeeperPathExists(object, path.key) => HasReturned(FALSE)

\* C5, amended: for a single key k that is an own property of o, has(o, k)
\* is true when k is not a deep-key string or the value stored under it is
\* neither null nor undefined (so an own plain key holding undefined or
\* null exists); on a plain mapping with no own property k and no deeper
\* path denoted by k, has(o, k) never returns true, inherited properties
\* included, and returns false when k is not a deep key.
C5_OwnPropertySemanticsUnlessNullishDeepKey ==
    hasRun.done /\ path.form = "key" /\ ~IsNullish(object) =>
        /\ hasOwn(object, path.key)
              /\ (~isDeepKey(path.key)
                    \/ ~IsNullish(GetMember(object, path.key))) =>
              HasReturned(TRUE)
        /\ IsPlainMapping(object) /\ ~hasOwn(object, path.key)
              /\ ~DeeperPathExists(object, path.key) =>
              /\ ~HasReturned(TRUE)
              /\ ~isDeepKey(path.key) => HasReturned(FALSE)

\* has({a: undefined}, 'a') has run.
C5_Witness ==
    /\ HasReturned(TRUE)
    /\ object = Obj(One(sA, Undef))
    /\ path = KeyPath(StrKey(sA))

\* The path invoke resolved leads, through members that are all there, to a
\* callable under its last key: P is the container holding it.
ResolvesToCallable(v, toks) ==
    /\ Len(toks) > 0
    /\ ~IsNullish(ValueAt(v, toks, Len(toks) - 1))
    /\ ValueAt(v, toks, Len(toks)).t = "function"

\* What invoke must have done when the path resolves to f under P: one
\* call of f with receiver P and the arguments flattened one level, and
\* f's own outcome as invoke's outcome.
CalledOnce(f, P) ==
    /\ invokeRun.calls = <<CallRecord(f, P, flat(args))>>
    /\ invokeRun.out = CallFunction(f, P, flat(args))

\* C6: when the path resolves to a callable f stored under the last key of
\* its parent container P, invoke calls f exactly once with P as receiver
\* and with the arguments flattened one level, and returns f's result or
\* propagates f's error.
C6_InvokesMemberOnParent ==
    invokeRun.done /\ ~IsNullish(object) /\ invokeRun.resolved.ok
        /\ ResolvesToCallable(object, invokeRun.resolved.toks) =>
        LET toks == invokeRun.resolved.toks IN
        CalledOnce(ValueAt(object, toks, Len(toks)),
                   ValueAt(object, toks, Len(toks) - 1))

\* C6 away from symbol keys: the same, for a path whose last key is a
\* string or a number.
C6_InvokesMemberOnParentUnlessSymbol ==
    invokeRun.done /\ ~IsNullish(object) /\ invokeRun.resolved.ok
        /\ ResolvesToCallable(object, invokeRun.resolved.toks)
        /\ invokeRun.resolved.toks[Len(invokeRun.resolved.toks)].k
              # "symbol" =>
        LET toks == invokeRun.resolved.toks IN
        CalledOnce(ValueAt(object, toks, Len(toks)),
                   ValueAt(object, toks, Len(toks) - 1))

CanCarryOwnProperties(v) ==
    v.t \in {"object", "array", "arguments", "function"}

\* What flat-key priority means for a string path p owned by the object:
\* invoke resolves p to [p], and a callable object[p] is the member called,
\* with the object as receiver.
FlatKeyInvoked ==
    /\ invokeRun.resolved = Tokens(<<path.key>>)
    /\ GetMember(object, path.key).t = "function" =>
          CalledOnce(GetMember(object, path.key), object)

\* C7 as the spec states it: for every non-null object that can carry own
\* properties, function objects included, and every string path p that is
\* an own property name of it, invoke uses [p] and never tokenizes p.
C7_FlatKeyPriority ==
    invokeRun.done /\ CanCarryOwnProperties(object)
        /\ path.form = "key" /\ path.key.k = "string"
        /\ hasOwn(object, path.key) => FlatKeyInvoked

\* C7, amended: for every non-null object whose typeof is 'object' (a
\* mapping, an array, an arguments object; not a function) and every string
\* path p that is an own property name of it, invoke uses [p] and never
\* tokenizes p, so a callable object[p] is the member invoked.
C7_FlatKeyPriorityOnTypeofObject ==
    invokeRun.done /\ ~IsNullish(object) /\ TypeOf(object) = "object"
        /\ path.form = "key" /\ path.key.k = "string"
        /\ hasOwn(object, path.key) => FlatKeyInvoked

\* invoke({'a.b': add, a: {b: self}}, 'a.b', [1, 2]) has run and called the
\* flat member.
C7_Witness ==
    /\ invokeRun.done
    /\ path = KeyPath(StrKey(sAB))
    /\ object = Obj(One(sAB, Fn("add")) @@ One(sA, Obj(One(sB, Fn("self")))))
    /\ args = <<ArrOf(<<Num1, Num2>>)>>
    /\ invokeRun.out = Return(Num(3))

\* C8: for every object o and every number or symbol key k under which o
\* stores a callable f, invoke(o, k, args) calls f with o as receiver and
\* returns its result, the same as invoke(o, [k], args).
C8_NumberOrSymbolKey ==
    invokeRun.done /\ ~IsNullish(object) /\ path.form = "key"
        /\ path.key.k \in {"number", "symbol"}
        /\ hasOwn(object, path.key)
        /\ GetMember(object, path.key).t = "function" =>
        /\ CalledOnce(GetMember(object, path.key), object)
        /\ Ended(invokeRun.out, invokeRun.calls)
              = invoke(object, SeqPath(<<path.key>>), args)

\* C8 for number keys alone.
C8_NumberKey ==
    invokeRun.done /\ ~IsNullish(object) /\ path.form = "key"
        /\ path.key.k = "number"
        /\ hasOwn(object, path.key)
        /\ GetMember(object, path.key).t = "function" =>
        /\ CalledOnce(GetMember(object, path.key), object)
        /\ Ended(invokeRun.out, invokeRun.calls)
              = invoke(object, SeqPath(<<path.key>>), args)

\* C9: when some key of the sequence other than the last is satisfied only
\* by the sparse-index exception (a hole inside the declared bounds), has
\* returns false: a path that continues past a hole fails.
C9_PathPastHoleFails ==
    hasRun.done /\ hasRun.resolved.ok =>
        LET toks == hasRun.resolved.toks IN
        (\E i \in 1..(Len(toks) - 1) : HoleAt(object, toks, i)) =>
            HasReturned(FALSE)

\* has([, x], [0, 'b']) has run: index 0 is a hole and a key follows it.
C9_Witness ==
    /\ HasReturned(FALSE)
    /\ path = SeqPath(<<NumKey(0), StrKey(sB)>>)
    /\ HoleAt(object, path.seq, 1)

BothRan == hasRun.done /\ invokeRun.done

====
